---- MODULE Spec2Model ----
(***************************************************************************)
(* Model of pynoddy.output.NoddyTopology (src/pynoddy/output.py):          *)
(* the topology graph loader (loadNetwork), and the ensemble comparison    *)
(* methods jaccard_coefficient, is_unique, calculate_unique_topologies,    *)
(* calculate_overlap and find_matching.                                    *)
(*                                                                         *)
(* Python strings are sequences of one-character strings.  A networkx      *)
(* Graph is a record [node, adj]: node maps a node id to its attribute     *)
(* dict, adj maps a node id to the dict {neighbour id -> edge attribute    *)
(* dict}; an undirected edge u-v is stored as adj[u][v] and adj[v][u].     *)
(* A call's outcome is a record [raised, ret]: raised names the exception  *)
(* ("none" when the call returns) and ret is <<value>> or <<>> for None.   *)
(***************************************************************************)
EXTENDS Integers, Sequences, FiniteSets, TLC

\* ------------------------------------------------------------------------
\* Bounds of the model
\* ------------------------------------------------------------------------
MaxLines == 2

MaxTopo == 3

MaxKnown == 2

\* ------------------------------------------------------------------------
\* Python built-ins used by the loader
\* ------------------------------------------------------------------------
DigitVal(c) ==
  CASE c = "0" -> 0 [] c = "1" -> 1 [] c = "2" -> 2 [] c = "3" -> 3
    [] c = "4" -> 4 [] c = "5" -> 5 [] c = "6" -> 6 [] c = "7" -> 7
    [] c = "8" -> 8 [] c = "9" -> 9

DigitChar(d) ==
  CASE d = 0 -> "0" [] d = 1 -> "1" [] d = 2 -> "2" [] d = 3 -> "3"
    [] d = 4 -> "4" [] d = 5 -> "5" [] d = 6 -> "6" [] d = 7 -> "7"
    [] d = 8 -> "8" [] d = 9 -> "9"

\* int(s) of a string of decimal digits
RECURSIVE int(_)
int(s) ==
  IF Len(s) = 1 THEN DigitVal(s[1])
  ELSE 10 * int(SubSeq(s, 1, Len(s) - 1)) + DigitVal(s[Len(s)])

\* "%d" % n
RECURSIVE str(_)
str(n) ==
  IF n < 10 THEN <<DigitChar(n)>>
  ELSE str(n \div 10) \o <<DigitChar(n % 10)>>

\* s.split(sep): the list of the parts of s between the separators
RECURSIVE split(_, _)
split(s, sep) ==
  IF \A i \in 1..Len(s) : s[i] # sep THEN <<s>>
  ELSE LET i == CHOOSE k \in 1..Len(s) :
                  s[k] = sep /\ \A j \in 1..(k - 1) : s[j] # sep
       IN <<SubSeq(s, 1, i - 1)>> \o split(SubSeq(s, i + 1, Len(s)), sep)

\* the characters str.rstrip() removes: space, \t, \n, \r, form feed and
\* vertical tab (the character 0x0b, written as itself)
Whitespace == {" ", "\t", "\n", "\r", "\f", ""}

\* s.rstrip(): s without its trailing whitespace
RECURSIVE rstrip(_)
rstrip(s) ==
  IF Len(s) > 0 /\ s[Len(s)] \in Whitespace
  THEN rstrip(SubSeq(s, 1, Len(s) - 1))
  ELSE s

\* a variant in which a key that d has keeps the value it has in d
MergeKeepOld(d, e) ==
  [k \in (DOMAIN d) \cup (DOMAIN e) |-> IF k \in DOMAIN d THEN d[k] ELSE e[k]]

\* d.update(e) / d[k] = v on attribute dicts
Merge(d, e) ==
  [k \in (DOMAIN d) \cup (DOMAIN e) |-> IF k \in DOMAIN e THEN e[k] ELSE d[k]]

\* The element of a one-element set: The({e(x) : x \in {v}}) is e(v) with v
\* worked out once, as a local variable's value is
The(S) == CHOOSE x \in S : TRUE

\* "%d_%s" % (int(lithoCode), topoCode): the key into node_properties
NodeKey(lithoCode, topoCode) == str(int(lithoCode)) \o <<"_">> \o topoCode

\* ------------------------------------------------------------------------
\* networkx.Graph operations used by NoddyTopology
\* ------------------------------------------------------------------------
EmptyGraph == [node |-> <<>>, adj |-> <<>>]

has_node(G, n) == n \in DOMAIN G.node

\* G.add_node(n, **attrs)
add_node(G, n, attrs) ==
  IF has_node(G, n)
  THEN [G EXCEPT !.node[n] = Merge(@, attrs)]
  ELSE [node |-> [x \in (DOMAIN G.node) \cup {n} |->
                    IF x = n THEN attrs ELSE G.node[x]],
        adj  |-> [x \in (DOMAIN G.adj) \cup {n} |->
                    IF x = n THEN <<>> ELSE G.adj[x]]]

\* G.node[n][key] = value
set_node_attr(G, n, key, value) ==
  [G EXCEPT !.node[n] = Merge(@, [k \in {key} |-> value])]

\* G.add_edge(u, v, **attrs): both endpoints become nodes when they are not,
\* and adj[u][v], adj[v][u] hold the one updated attribute dict
add_edge(G, u, v, attrs) ==
  LET withU(G0) == IF has_node(G0, u) THEN G0 ELSE add_node(G0, u, <<>>)
      withV(G1) == IF has_node(G1, v) THEN G1 ELSE add_node(G1, v, <<>>)
      old(G2) == IF v \in DOMAIN G2.adj[u] THEN G2.adj[u][v] ELSE <<>>
      put(nbrs, k, datadict) == [x \in (DOMAIN nbrs) \cup {k} |->
                                   IF x = k THEN datadict ELSE nbrs[x]]
  IN The({[node |-> G2.node,
           adj |-> [[G2.adj EXCEPT ![u] = put(@, v, datadict)]
                      EXCEPT ![v] = put(@, u, datadict)]] :
          G2 \in {withV(withU(G))},
          datadict \in {Merge(old(withV(withU(G))), attrs)}})

\* a variant of has_edge that only looks for both endpoints among the nodes
has_edge_endpoints(G, u, v) == u \in DOMAIN G.adj /\ v \in DOMAIN G.adj

\* G.has_edge(u, v): v in adj[u]; False when u is no node
has_edge(G, u, v) ==
  IF u \in DOMAIN G.adj THEN v \in DOMAIN G.adj[u] ELSE FALSE

\* The orders in which a dict with the keys S can yield them: the order
\* follows the hashes of the keys and the history of the dict, so every
\* enumeration of S is possible
RECURSIVE Enumerations(_)
Enumerations(S) ==
  IF S = {} THEN {<<>>}
  ELSE UNION {{<<x>> \o r : r \in Enumerations(S \ {x})} : x \in S}

\* G.edges_iter(): every edge once, as (n, nbr) with n the endpoint that the
\* iteration over adj meets first; the lists it can yield when adj yields
\* its nodes in the order given and the nodes in seen have gone before
RECURSIVE edges_from(_, _, _)
edges_from(G, order, seen) ==
  IF order = <<>> THEN {<<>>}
  ELSE {[i \in 1..Len(nbrs) |-> <<Head(order), nbrs[i]>>] \o rest :
          nbrs \in Enumerations((DOMAIN G.adj[Head(order)]) \ seen),
          rest \in edges_from(G, Tail(order), seen \cup {Head(order)})}

\* the lists of edges that G.edges_iter() can yield
edges_iter(G) ==
  UNION {edges_from(G, order, {}) : order \in Enumerations(DOMAIN G.adj)}

\* G.number_of_edges(): half the sum of the degrees of the nodes in S, a
\* self-loop counting 2
RECURSIVE degree_sum(_, _)
degree_sum(G, S) ==
  IF S = {} THEN 0
  ELSE LET n == CHOOSE x \in S : TRUE
       IN Cardinality(DOMAIN G.adj[n])
          + (IF n \in DOMAIN G.adj[n] THEN 1 ELSE 0)
          + degree_sum(G, S \ {n})

number_of_edges(G) == degree_sum(G, DOMAIN G.adj) \div 2

\* a variant that deletes n and its own adjacency only, leaving n in the
\* adjacency of its neighbours
remove_node_only(G, n) ==
  LET rest == (DOMAIN G.node) \ {n}
  IN [node |-> [x \in rest |-> G.node[x]],
      adj  |-> [x \in rest |-> G.adj[x]]]

\* G.remove_node(n): n and every edge at n
remove_node(G, n) ==
  LET rest == (DOMAIN G.node) \ {n}
  IN [node |-> [x \in rest |-> G.node[x]],
      adj  |-> [x \in rest |->
                  [y \in (DOMAIN G.adj[x]) \ {n} |-> G.adj[x][y]]]]

\* ------------------------------------------------------------------------
\* The property mappings that read_properties leaves in the object
\* ------------------------------------------------------------------------
\* lithology code -> parameters; a colour channel c/255.0 is written c
lithology_properties ==
  [c \in {1, 2} |->
     IF c = 1
     THEN [code |-> 1, name |-> "Upper Series", colour |-> <<255, 0, 0>>]
     ELSE [code |-> 2, name |-> "Dyke", colour |-> <<0, 128, 255>>]]

Id_1_00a == <<"1", "_", "0", "0", "a">>

Id_1_03a == <<"1", "_", "0", "3", "a">>

Id_2_35a == <<"2", "_", "3", "5", "a">>

Id_2_00a == <<"2", "_", "0", "0", "a">>

Id_1_52a == <<"1", "_", "5", "2", "a">>

\* a node whose lithology code has no entry in lithology_properties
Id_3_00a == <<"3", "_", "0", "0", "a">>

\* a node whose key has no entry in node_properties
Id_2_07a == <<"2", "_", "0", "7", "a">>

\* topology codes of two events and a final letter: the second event has
\* every digit
TopoCodes ==
  {<<x, DigitChar(y), z>> : x \in {"0", "3"}, y \in 0..9, z \in {"a", "b"}}

\* the id, and the key, of the vertex of lithology 1 with topology code t
Id_1(t) == <<"1", "_">> \o t

\* "<litho>_<topo>" -> parameters of the vertex; the _v.vs file has a vertex
\* of lithology 1 for every topology code
node_properties ==
  [k \in {Id_1_00a, Id_1_03a, Id_2_35a, Id_2_00a, Id_1_52a, Id_3_00a}
          \cup {Id_1(t) : t \in TopoCodes} |->
     CASE k = Id_1_00a -> [centroid |-> <<1, 1, 1>>, litho |-> 1,
                           topo |-> <<"0", "0", "a">>, volume |-> 100]
       [] k = Id_1_03a -> [centroid |-> <<2, 1, 1>>, litho |-> 1,
                           topo |-> <<"0", "3", "a">>, volume |-> 5]
       [] k = Id_2_35a -> [centroid |-> <<3, 2, 1>>, litho |-> 2,
                           topo |-> <<"3", "5", "a">>, volume |-> 60]
       [] k = Id_2_00a -> [centroid |-> <<4, 2, 2>>, litho |-> 2,
                           topo |-> <<"0", "0", "a">>, volume |-> 50]
       [] k = Id_1_52a -> [centroid |-> <<5, 3, 2>>, litho |-> 1,
                           topo |-> <<"5", "2", "a">>, volume |-> 49]
       [] k = Id_3_00a -> [centroid |-> <<6, 3, 3>>, litho |-> 3,
                           topo |-> <<"0", "0", "a">>, volume |-> 7]
       [] OTHER -> [centroid |-> <<0, 0, 0>>, litho |-> 1,
                    topo |-> SubSeq(k, 3, Len(k)), volume |-> 10]]

\* ------------------------------------------------------------------------
\* NoddyTopology.loadNetwork
\* ------------------------------------------------------------------------
\* the initial eCode is the integer 0, a later one a character of a code
PyInt0 == [type |-> "int", repr |-> "0"]

PyChar(c) == [type |-> "str", repr |-> c]

\* int(eCode)
intCode(eCode) == DigitVal(eCode.repr)

\* a variant whose fault test is int(eCode) == 2 alone
EdgeKindFaultIsTwo(eCode) ==
  LET d == intCode(eCode)
  IN IF d = 0 THEN [eColour |-> "k", eType |-> "stratigraphic"]
     ELSE IF d = 2 THEN [eColour |-> "r", eType |-> "fault"]
     ELSE IF d = 3 THEN [eColour |-> "b", eType |-> "unconformity"]
     ELSE IF d = 5 THEN [eColour |-> "y", eType |-> "intrusive"]
     ELSE [eColour |-> "g", eType |-> "unknown"]

\* the chain of tests on int(eCode): colour and type of an edge
EdgeKind(eCode) ==
  LET d == intCode(eCode)
  IN IF d = 0 THEN [eColour |-> "k", eType |-> "stratigraphic"]
     ELSE IF d = 2 \/ d = 7 \/ d = 8 THEN [eColour |-> "r", eType |-> "fault"]
     ELSE IF d = 3 THEN [eColour |-> "b", eType |-> "unconformity"]
     ELSE IF d = 5 THEN [eColour |-> "y", eType |-> "intrusive"]
     ELSE [eColour |-> "g", eType |-> "unknown"]

\* the larger of the two differing characters, topoCode1's on a tie
LargerCode(c1, c2) == IF DigitVal(c2) > DigitVal(c1) THEN c2 ELSE c1

\* a variant of the scan that stops at the first difference
RECURSIVE classifyFirstDiff(_, _, _, _)
classifyFirstDiff(topoCode1, topoCode2, i, acc) ==
  IF i > Len(topoCode1) - 1 THEN acc
  ELSE IF i > Len(topoCode2) THEN [acc EXCEPT !.raised = "IndexError"]
  ELSE IF topoCode1[i] # topoCode2[i]
       THEN LET eCode == PyChar(LargerCode(topoCode1[i], topoCode2[i]))
                kind == EdgeKind(eCode)
            IN [eCode |-> eCode, eType |-> kind.eType,
                eColour |-> kind.eColour, raised |-> "none"]
       ELSE classifyFirstDiff(topoCode1, topoCode2, i + 1, acc)

\* for i in range(0, len(topoCode1) - 1): the scan from position i on, acc
\* holding eCode, eType and eColour so far; no position ends the scan early
RECURSIVE classifyLoop(_, _, _, _)
classifyLoop(topoCode1, topoCode2, i, acc) ==
  IF i > Len(topoCode1) - 1 THEN acc
  ELSE IF i > Len(topoCode2) THEN [acc EXCEPT !.raised = "IndexError"]
  ELSE IF topoCode1[i] # topoCode2[i]
       THEN LET eCode == PyChar(LargerCode(topoCode1[i], topoCode2[i]))
                kind == EdgeKind(eCode)
            IN classifyLoop(topoCode1, topoCode2, i + 1,
                 [eCode |-> eCode, eType |-> kind.eType,
                  eColour |-> kind.eColour, raised |-> "none"])
       ELSE classifyLoop(topoCode1, topoCode2, i + 1, acc)

\* eCode, eType, eColour of the edge between nodes of these topology codes
classify(topoCode1, topoCode2) ==
  classifyLoop(topoCode1, topoCode2, 1,
    [eCode |-> PyInt0, eType |-> "stratigraphic", eColour |-> "k",
     raised |-> "none"])

\* a variant that leaves out the attributes it finds no entry for
loadNodeLenient(G, id, lithoCode, topoCode) ==
  LET known == int(lithoCode) \in DOMAIN lithology_properties
      G1 == IF known
            THEN add_node(G, id, [lithology |-> lithoCode,
                   name |-> lithology_properties[int(lithoCode)].name,
                   colour |-> lithology_properties[int(lithoCode)].colour])
            ELSE add_node(G, id, [lithology |-> lithoCode])
      key == NodeKey(lithoCode, topoCode)
  IN IF key \notin DOMAIN node_properties
     THEN [graph |-> G1, raised |-> "none"]
     ELSE [graph |-> set_node_attr(
                       set_node_attr(G1, id, "centroid",
                                     node_properties[key].centroid),
                       id, "volume", node_properties[key].volume),
           raised |-> "none"]

\* "create nodes & associated properties" for one endpoint: four statements,
\* each of which can end the load with a KeyError
loadNode(G, id, lithoCode, topoCode) ==
  IF int(lithoCode) \notin DOMAIN lithology_properties
  THEN [graph |-> G, raised |-> "KeyError"]
  ELSE
    LET lp == lithology_properties[int(lithoCode)]
        G1 == add_node(G, id, [lithology |-> lithoCode, name |-> lp.name])
        G2 == set_node_attr(G1, id, "colour", lp.colour)
        key == NodeKey(lithoCode, topoCode)
    IN IF key \notin DOMAIN node_properties
       THEN [graph |-> G2, raised |-> "KeyError"]
       ELSE LET np == node_properties[key]
                G3 == set_node_attr(G2, id, "centroid", np.centroid)
                G4 == set_node_attr(G3, id, "volume", np.volume)
            IN [graph |-> G4, raised |-> "none"]

\* the body of "for l in lines" for one line l of the .g23 file
loadLine(G, l) ==
  LET data == split(rstrip(l), "\t")
      topoCode1 == split(data[1], "_")[2]
      topoCode2 == split(data[2], "_")[2]
      lithoCode1 == split(data[1], "_")[1]
      lithoCode2 == split(data[2], "_")[1]
      count == int(data[Len(data)])
      cls == classify(topoCode1, topoCode2)
  IN IF cls.raised # "none" THEN [graph |-> G, raised |-> cls.raised]
     ELSE The({
       IF n1.raised # "none" THEN n1
       ELSE The({
         IF n2.raised # "none" THEN n2
         ELSE [graph |-> add_edge(n2.graph, data[1], data[2],
                           [edgeCode |-> cls.eCode,
                            edgeType |-> cls.eType,
                            colour |-> cls.eColour,
                            area |-> count, weight |-> 1]),
               raised |-> "none"] :
         n2 \in {loadNode(n1.graph, data[2], lithoCode2, topoCode2)}}) :
       n1 \in {loadNode(G, data[1], lithoCode1, topoCode1)}})

\* loadNetwork over the lines of a file, from the graph G on
RECURSIVE loadLines(_, _)
loadLines(G, lines) ==
  IF lines = <<>> THEN [graph |-> G, raised |-> "none"]
  ELSE The({IF r.raised # "none" THEN r
            ELSE loadLines(r.graph, Tail(lines)) :
            r \in {loadLine(G, Head(lines))}})

\* the graph of NoddyTopology(basename) whose .g23 file holds these lines
loadNetwork(lines) == loadLines(EmptyGraph, lines)

\* a line of the .g23 file: "<id0>\t<id1>\t<count>\n"
EdgeLine(id0, id1, count) ==
  id0 \o <<"\t">> \o id1 \o <<"\t">> \o count \o <<"\n">>

\* the ids of the files loaded line by line
NodeIds == {Id_1_00a, Id_1_03a, Id_2_00a, Id_1_52a, Id_3_00a, Id_2_07a}

Counts == {<<"4">>, <<"1", "0">>}

EdgeLines == {EdgeLine(a, b, c) : a \in NodeIds, b \in NodeIds, c \in Counts}

\* ------------------------------------------------------------------------
\* NoddyTopology.filter_node_volumes
\* ------------------------------------------------------------------------
\* a variant that also removes a node whose volume equals min_volume
RECURSIVE filterLoopUpTo(_, _, _, _)
filterLoopUpTo(G, nodes, min_volume, count) ==
  IF nodes = <<>> THEN [graph |-> G, ret |-> count]
  ELSE IF G.node[Head(nodes)].volume <= min_volume
       THEN The({filterLoopUpTo(G1, Tail(nodes), min_volume, count + 1) :
                 G1 \in {remove_node(G, Head(nodes))}})
       ELSE filterLoopUpTo(G, Tail(nodes), min_volume, count)

\* a variant whose loop ends at the first node it removes
RECURSIVE filterLoopFirst(_, _, _, _)
filterLoopFirst(G, nodes, min_volume, count) ==
  IF nodes = <<>> THEN [graph |-> G, ret |-> count]
  ELSE IF G.node[Head(nodes)].volume < min_volume
       THEN [graph |-> remove_node(G, Head(nodes)), ret |-> count + 1]
       ELSE filterLoopFirst(G, Tail(nodes), min_volume, count)

\* for n in self.graph.nodes(): over the list of nodes taken before the loop
RECURSIVE filterLoop(_, _, _, _)
filterLoop(G, nodes, min_volume, count) ==
  IF nodes = <<>> THEN [graph |-> G, ret |-> count]
  ELSE IF G.node[Head(nodes)].volume < min_volume
       THEN The({filterLoop(G1, Tail(nodes), min_volume, count + 1) :
                 G1 \in {remove_node(G, Head(nodes))}})
       ELSE filterLoop(G, Tail(nodes), min_volume, count)

\* the outcomes of the call: one for every order in which self.graph.nodes()
\* can list the nodes
filter_node_volumes(G, min_volume) ==
  {filterLoop(G, nodes, min_volume, 0) :
     nodes \in Enumerations(DOMAIN G.node)}

\* ------------------------------------------------------------------------
\* The comparison methods
\* ------------------------------------------------------------------------
Raised(e) == [raised |-> e, ret |-> <<>>]

Returned(v) == [raised |-> "none", ret |-> <<v>>]

ReturnedNone == [raised |-> "none", ret |-> <<>>]

\* a variant of the test that enters an endpoint it does not find among the
\* nodes of G, as a lookup in a dict that creates missing keys does
has_edge_entering(G, u, v) ==
  The({[ret |-> has_edge(G, u, v), graph |-> Gv] :
       Gv \in {IF has_node(Gu, v) THEN Gu ELSE add_node(Gu, v, <<>>) :
                 Gu \in {IF has_node(G, u) THEN G ELSE add_node(G, u, <<>>)}}})

\* the call G.has_edge(u, v) in the body of a loop: what it returns and the
\* graph it leaves, which is the graph it found
has_edge_call(G, u, v) == [ret |-> has_edge(G, u, v), graph |-> G]

\* for e in self.graph.edges_iter(): the counters, and the graphs of self
\* and of G2, after the edges es
RECURSIVE jaccardLoop(_, _, _, _, _)
jaccardLoop(es, G1, G2, intersection, union) ==
  IF es = <<>>
  THEN [self |-> G1, G2 |-> G2,
        intersection |-> intersection, union |-> union]
  ELSE The({IF h.ret
            THEN jaccardLoop(Tail(es), G1, h.graph, intersection + 1, union)
            ELSE jaccardLoop(Tail(es), G1, h.graph, intersection, union + 1) :
            h \in {has_edge_call(G2, Head(es)[1], Head(es)[2])}})

\* self.jaccard_coefficient(G2) as a call: for every list that edges_iter can
\* yield, its outcome and the graphs it leaves. intersection / float(union):
\* the float is kept as the fraction num/den, and the division raises when
\* union is 0
jaccardCall(G1, G2) ==
  {[out |-> IF r.union = 0 THEN Raised("ZeroDivisionError")
            ELSE Returned([num |-> r.intersection, den |-> r.union]),
    self |-> r.self, G2 |-> r.G2] :
   r \in {jaccardLoop(es, G1, G2, 0, n) :
            es \in edges_iter(G1), n \in {number_of_edges(G1)}}}

\* the outcomes of the call
jaccard_coefficient(G1, G2) == {c.out : c \in jaccardCall(G1, G2)}

\* x == 1 / x == 1.0 on such a float
IsOne(x) == x.num = x.den

\* for g2 in known, in is_unique: the outcomes, with the graphs left, when
\* the graphs in done have been compared and those in rest are to come
RECURSIVE isUniqueLoop(_, _, _)
isUniqueLoop(G1, done, rest) ==
  IF rest = <<>>
  THEN {[out |-> Returned(TRUE), self |-> G1, known |-> done]}
  ELSE UNION {IF j.out.raised # "none"
              THEN {[out |-> Raised(j.out.raised), self |-> j.self,
                     known |-> Append(done, j.G2) \o Tail(rest)]}
              ELSE IF IsOne(j.out.ret[1])
              THEN {[out |-> Returned(FALSE), self |-> j.self,
                     known |-> Append(done, j.G2) \o Tail(rest)]}
              ELSE isUniqueLoop(j.self, Append(done, j.G2), Tail(rest)) :
              j \in jaccardCall(G1, Head(rest))}

is_unique(G1, known) == {c.out : c \in isUniqueLoop(G1, <<>>, known)}

\* for g1 in known, in find_matching: likewise; the graph returned is g1
RECURSIVE findMatchingLoop(_, _, _)
findMatchingLoop(G1, done, rest) ==
  IF rest = <<>>
  THEN {[out |-> ReturnedNone, self |-> G1, known |-> done]}
  ELSE UNION {IF j.out.raised # "none"
              THEN {[out |-> Raised(j.out.raised), self |-> j.self,
                     known |-> Append(done, j.G2) \o Tail(rest)]}
              ELSE IF IsOne(j.out.ret[1])
              THEN {[out |-> Returned(j.G2), self |-> j.self,
                     known |-> Append(done, j.G2) \o Tail(rest)]}
              ELSE findMatchingLoop(j.self, Append(done, j.G2), Tail(rest)) :
              j \in jaccardCall(G1, Head(rest))}

find_matching(G1, known) == {c.out : c \in findMatchingLoop(G1, <<>>, known)}

\* for e in self.graph.edges_iter(), in calculate_overlap
RECURSIVE overlapLoop(_, _, _, _)
overlapLoop(es, G1, G2, similarity) ==
  IF es = <<>> THEN [self |-> G1, G2 |-> G2, similarity |-> similarity]
  ELSE The({IF h.ret
            THEN overlapLoop(Tail(es), G1, h.graph, similarity + 1)
            ELSE overlapLoop(Tail(es), G1, h.graph, similarity) :
            h \in {has_edge_call(G2, Head(es)[1], Head(es)[2])}})

\* self.calculate_overlap(G2) as a call: its outcomes and the graphs left
overlapCall(G1, G2) ==
  {[out |-> Returned(r.similarity), self |-> r.self, G2 |-> r.G2] :
   r \in {overlapLoop(es, G1, G2, 0) : es \in edges_iter(G1)}}

calculate_overlap(G1, G2) == {c.out : c \in overlapCall(G1, G2)}

\* ------------------------------------------------------------------------
\* The topologies the comparison methods are called on
\* ------------------------------------------------------------------------
Line_AB == EdgeLine(Id_1_00a, Id_1_03a, <<"1", "0">>)

Line_BC == EdgeLine(Id_1_03a, Id_2_35a, <<"4">>)

Line_AC == EdgeLine(Id_1_00a, Id_2_35a, <<"4">>)

ModelFiles ==
  {<<>>, <<Line_AB>>, <<Line_BC>>, <<Line_AC>>, <<Line_AB, Line_BC>>,
   <<Line_AB, Line_AC>>, <<Line_BC, Line_AC>>, <<Line_AB, Line_BC, Line_AC>>}

\* the graphs of the loaded models, and of one model pruned after loading
Topologies ==
  {loadNetwork(file).graph : file \in ModelFiles}
  \cup {r.graph : r \in filter_node_volumes(loadNetwork(<<Line_AB>>).graph, 50)}

\* lists of at most n topologies
RECURSIVE ListsUpTo(_)
ListsUpTo(n) ==
  IF n = 0 THEN {<<>>}
  ELSE LET shorter == ListsUpTo(n - 1)
       IN shorter \cup {Append(l, t) : l \in {k \in shorter : Len(k) = n - 1},
                                       t \in Topologies}

\* the lists given as known to is_unique and find_matching
KnownLists == ListsUpTo(MaxKnown)

\* the lists given to calculate_unique_topologies
EnsembleLists == ListsUpTo(MaxTopo)

\* ------------------------------------------------------------------------
\* State
\* ------------------------------------------------------------------------
VARIABLES
  graph,          \* self.graph of the NoddyTopology being constructed
  read,           \* the lines of its .g23 file that the loop has taken
  bstate,         \* "idle", "loading", "loaded", or "raised"
  call,           \* the last call of a comparison method: its arguments and outcome
  topology_list,  \* calculate_unique_topologies: its argument
  output,         \* whether the keyword output names a file
  uTopo,          \* the list of unique topologies so far
  it,             \* the position in topology_list of the next t
  f,              \* the numbers written to the output file
  pc              \* "idle", "called", "loop", "returned" or "raised"

vars == <<graph, read, bstate, call, topology_list, output, uTopo, it, f, pc>>

buildVars == <<graph, read, bstate>>

reduceVars == <<topology_list, output, uTopo, it, f>>

NoCall == [op |-> "none"]

\* ------------------------------------------------------------------------
\* Construction of one NoddyTopology: __init__ and loadNetwork
\* ------------------------------------------------------------------------
InitBuild ==
  /\ graph = EmptyGraph
  /\ read = <<>>
  /\ bstate = "loading"
  /\ call = NoCall
  /\ topology_list = <<>>
  /\ output = FALSE
  /\ uTopo = <<>>
  /\ it = 1
  /\ f = <<>>
  /\ pc = "idle"

\* one pass of the loop over the lines of the file
ReadLine(l) ==
  /\ bstate = "loading"
  /\ Len(read) < MaxLines
  /\ LET r == loadLine(graph, l)
     IN /\ graph' = r.graph
        /\ bstate' = IF r.raised = "none" THEN "loading" ELSE "raised"
  /\ read' = Append(read, l)
  /\ UNCHANGED <<call, reduceVars, pc>>

\* the file has no further line: loadNetwork and __init__ return
EndOfFile ==
  /\ bstate = "loading"
  /\ bstate' = "loaded"
  /\ UNCHANGED <<graph, read, call, reduceVars, pc>>

NextBuild ==
  \/ \E l \in EdgeLines : ReadLine(l)
  \/ EndOfFile

SpecBuild == InitBuild /\ [][NextBuild]_vars

\* ------------------------------------------------------------------------
\* Construction from a file of one line, over every pair of topology codes
\* ------------------------------------------------------------------------
\* the one-line files: an edge between two vertices of lithology 1
CodePairLines ==
  {EdgeLine(Id_1(t1), Id_1(t2), <<"4">>) :
     t1 \in {t \in TopoCodes : t[3] = "a"}, t2 \in TopoCodes}

NextCodePair ==
  \/ \E l \in CodePairLines : Len(read) = 0 /\ ReadLine(l)
  \/ EndOfFile

SpecCodePair == InitBuild /\ [][NextCodePair]_vars

\* ------------------------------------------------------------------------
\* Calls of the comparison methods on loaded topologies
\* ------------------------------------------------------------------------
Init ==
  /\ graph = EmptyGraph
  /\ read = <<>>
  /\ bstate = "idle"
  /\ call = NoCall
  /\ topology_list = <<>>
  /\ output = FALSE
  /\ uTopo = <<>>
  /\ it = 1
  /\ f = <<>>
  /\ pc = "idle"

\* a call is made on the object as constructed; its outcome ends the run
Idle == pc = "idle" /\ call = NoCall

Called ==
  /\ pc' = "called"
  /\ UNCHANGED <<reduceVars, buildVars>>

Jaccard ==
  /\ Idle
  /\ \E G1 \in Topologies, G2 \in Topologies :
       \E c \in jaccardCall(G1, G2) :
         call' = [op |-> "jaccard_coefficient", self |-> G1, G2 |-> G2,
                  out |-> c.out, after |-> <<c.self, c.G2>>]
  /\ Called

Overlap ==
  /\ Idle
  /\ \E G1 \in Topologies, G2 \in Topologies :
       \E c \in overlapCall(G1, G2) :
         call' = [op |-> "calculate_overlap", self |-> G1, G2 |-> G2,
                  out |-> c.out, after |-> <<c.self, c.G2>>]
  /\ Called

IsUnique ==
  /\ Idle
  /\ \E G1 \in Topologies, known \in KnownLists :
       \E c \in isUniqueLoop(G1, <<>>, known) :
         call' = [op |-> "is_unique", self |-> G1, known |-> known,
                  out |-> c.out, after |-> <<c.self, c.known>>]
  /\ Called

FindMatching ==
  /\ Idle
  /\ \E G1 \in Topologies, known \in KnownLists :
       \E c \in findMatchingLoop(G1, <<>>, known) :
         call' = [op |-> "find_matching", self |-> G1, known |-> known,
                  out |-> c.out, after |-> <<c.self, c.known>>]
  /\ Called

\* calculate_unique_topologies(list, output=...) up to its loop
UniqueStart ==
  /\ Idle
  /\ topology_list' \in EnsembleLists
  /\ output' \in BOOLEAN
  /\ uTopo' = <<>>
  /\ it' = 1
  /\ f' = <<>>
  /\ pc' = "loop"
  /\ call' = NoCall
  /\ UNCHANGED buildVars

\* the graph of t after the statements that come before uTopo.append(t) in
\* the branch "if t.is_unique(uTopo)": there is none but a comment
AsKept(t) == t

\* one pass of "for t in topology_list", the write to the file included;
\* t is one object, in topology_list and, once appended, in uTopo; the
\* graphs are those that t.is_unique(uTopo) leaves
UniqueStep ==
  /\ pc = "loop"
  /\ it <= Len(topology_list)
  /\ \E c \in isUniqueLoop(topology_list[it], <<>>, uTopo) :
       \E u \in {c.out} :
         IF u.raised # "none"
         THEN /\ pc' = "raised"
              /\ call' = [op |-> "calculate_unique_topologies",
                          out |-> Raised(u.raised)]
              /\ topology_list' = [topology_list EXCEPT ![it] = c.self]
              /\ uTopo' = c.known
              /\ UNCHANGED <<it, f>>
         ELSE /\ \E t1 \in {IF u.ret[1] THEN AsKept(c.self) ELSE c.self} :
                   /\ topology_list' = [topology_list EXCEPT ![it] = t1]
                   /\ uTopo' = IF u.ret[1] THEN Append(c.known, t1)
                               ELSE c.known
              /\ f' = IF output THEN Append(f, Len(uTopo')) ELSE f
              /\ it' = it + 1
              /\ UNCHANGED <<pc, call>>
  /\ UNCHANGED <<output, buildVars>>

\* the loop is over: return uTopo
UniqueReturn ==
  /\ pc = "loop"
  /\ it > Len(topology_list)
  /\ pc' = "returned"
  /\ call' = [op |-> "calculate_unique_topologies", out |-> Returned(uTopo)]
  /\ UNCHANGED <<reduceVars, buildVars>>

Next ==
  \/ Jaccard
  \/ Overlap
  \/ IsUnique
  \/ FindMatching
  \/ UniqueStart
  \/ UniqueStep
  \/ UniqueReturn

Spec == Init /\ [][Next]_vars

\* ------------------------------------------------------------------------
\* Calls of filter_node_volumes on a loaded topology
\* ------------------------------------------------------------------------
\* the number of calls made on one topology
MaxFilterCalls == 2

Line_CD == EdgeLine(Id_2_35a, Id_2_00a, <<"4">>)

Line_DE == EdgeLine(Id_2_00a, Id_1_52a, <<"1", "0">>)

\* the files made of some of the lines of a file, in the file's order
RECURSIVE Subsequences(_)
Subsequences(s) ==
  IF s = <<>> THEN {<<>>}
  ELSE The({r \cup {<<Head(s)>> \o x : x \in r} :
            r \in {Subsequences(Tail(s))}})

\* the graphs of the topologies loaded from such files; the volumes of
\* their nodes are 100, 5, 60, 50 and 49
FilterGraphs ==
  {loadNetwork(file).graph :
     file \in Subsequences(<<Line_AB, Line_BC, Line_AC, Line_CD, Line_DE>>)}

\* the values of min_volume; 50 is the default
MinVolumes == {5, 50, 60, 101}

InitFilter ==
  /\ graph \in FilterGraphs
  /\ read = <<>>
  /\ bstate = "loaded"
  /\ call = [op |-> "filter_node_volumes", calls |-> <<>>]
  /\ topology_list = <<>>
  /\ output = FALSE
  /\ uTopo = <<>>
  /\ it = 1
  /\ f = <<>>
  /\ pc = "idle"

\* self.filter_node_volumes(min_volume); call.calls keeps, for every call
\* made, its argument, the graph it found and the number it returned
FilterNodeVolumes(min_volume) ==
  /\ bstate = "loaded"
  /\ Len(call.calls) < MaxFilterCalls
  /\ \E r \in filter_node_volumes(graph, min_volume) :
       /\ graph' = r.graph
       /\ call' = [call EXCEPT !.calls =
                     Append(@, [min_volume |-> min_volume, before |-> graph,
                                ret |-> r.ret])]
  /\ UNCHANGED <<read, bstate, reduceVars, pc>>

NextFilter == \E min_volume \in MinVolumes : FilterNodeVolumes(min_volume)

SpecFilter == InitFilter /\ [][NextFilter]_vars

\* ------------------------------------------------------------------------
\* Vocabulary of the properties
\* ------------------------------------------------------------------------
\* the edge set of a graph: its unordered node-id pairs
EdgeSet(G) == UNION {{{u, v} : v \in DOMAIN G.adj[u]} : u \in DOMAIN G.adj}

NoEdges(G) == EdgeSet(G) = {}

\* x == 0.0 of a returned float
IsZero(x) == x.num = 0

ReturnsOne(out) == out.raised = "none" /\ IsOne(out.ret[1])

ReturnsZero(out) == out.raised = "none" /\ IsZero(out.ret[1])

\* jaccard(X, Y) == 1.0, whatever the order of the iteration
Matches(X, Y) == \A j \in jaccard_coefficient(X, Y) : ReturnsOne(j)

\* jaccard(X, Y) < 1.0, whatever the order of the iteration
BelowOne(X, Y) ==
  \A j \in jaccard_coefficient(X, Y) :
    j.raised = "none" /\ j.ret[1].num < j.ret[1].den

Min(S) == CHOOSE x \in S : \A y \in S : x <= y

Max(S) == CHOOSE x \in S : \A y \in S : x >= y

\* the two node ids of a line of the file, and the topology code of an id
LineIds(l) == SubSeq(split(rstrip(l), "\t"), 1, 2)

TopoOf(id) == split(id, "_")[2]

\* the positions, final character left out, where two codes differ
DiffPositions(t1, t2) == {i \in 1..(Len(t1) - 1) : t1[i] # t2[i]}

\* the lines of the file that the loader has completed
LoadedLines ==
  IF bstate = "raised" THEN SubSeq(read, 1, Len(read) - 1) ELSE read

\* the edge between the ids of line l has the code and type that the codes'
\* position i alone gives
ClassifiedAt(l, i) ==
  LET ids == LineIds(l)
      t1 == TopoOf(ids[1])
      t2 == TopoOf(ids[2])
      e == graph.adj[ids[1]][ids[2]]
      d == Max({DigitVal(t1[i]), DigitVal(t2[i])})
      alone == classify(<<t1[i], "a">>, <<t2[i], "a">>)
  IN /\ intCode(e.edgeCode) = d
     /\ e.edgeCode = alone.eCode
     /\ e.edgeType = alone.eType

\* ------------------------------------------------------------------------
\* C1 (as claimed): after calculate_unique_topologies returns, every two
\* distinct elements X, Y of the returned list have jaccard(X, Y) < 1.0 and
\* jaccard(Y, X) < 1.0.
\* ------------------------------------------------------------------------
C1_PairwiseNonMatching ==
  pc = "returned" =>
    \A i \in 1..Len(uTopo), j \in 1..Len(uTopo) :
      i # j => BelowOne(uTopo[i], uTopo[j]) /\ BelowOne(uTopo[j], uTopo[i])

\* ------------------------------------------------------------------------
\* C2 (as claimed): jaccard(A, B) == 1.0 if and only if A and B have the
\* same edge set, and jaccard(A, B) == 0.0 if and only if their edge sets
\* share no edge.
\* ------------------------------------------------------------------------
C2_OneIffIdenticalZeroIffDisjoint ==
  call.op = "jaccard_coefficient" =>
    LET A == EdgeSet(call.self)
        B == EdgeSet(call.G2)
    IN /\ ReturnsOne(call.out) <=> (A = B)
       /\ ReturnsZero(call.out) <=> (A \cap B = {})

\* ------------------------------------------------------------------------
\* C3 (as claimed): jaccard(A, B) equals |edges(A) n edges(B)| divided by
\* |edges(A) u edges(B)|, and the value returned lies in [0, 1].
\* ------------------------------------------------------------------------
C3_ClassicRatio ==
  call.op = "jaccard_coefficient" =>
    LET A == EdgeSet(call.self)
        B == EdgeSet(call.G2)
    IN /\ call.out.raised = "none"
       /\ call.out.ret[1].num * Cardinality(A \cup B)
            = call.out.ret[1].den * Cardinality(A \cap B)
       /\ 0 <= call.out.ret[1].num
       /\ call.out.ret[1].num <= call.out.ret[1].den

\* ------------------------------------------------------------------------
\* C4 (as claimed): for any graph G, one with zero edges included,
\* jaccard(G, G) == 1.0.
\* ------------------------------------------------------------------------
C4_SelfSimilarityIsOne ==
  (call.op = "jaccard_coefficient" /\ call.self = call.G2)
    => ReturnsOne(call.out)

\* ------------------------------------------------------------------------
\* C5 (as claimed): for graphs A and B with disjoint edge sets, A or B with
\* zero edges included, jaccard(A, B) == 0.0.
\* ------------------------------------------------------------------------
C5_DisjointIsZero ==
  (call.op = "jaccard_coefficient"
     /\ EdgeSet(call.self) \cap EdgeSet(call.G2) = {})
    => ReturnsZero(call.out)

\* ------------------------------------------------------------------------
\* C6 (as claimed): no comparison method raises when an input graph has
\* zero edges, and jaccard of two graphs with empty edge sets returns 1.0.
\* ------------------------------------------------------------------------
C6_NoErrorOnEmptyGraph ==
  /\ (call.op \in {"jaccard_coefficient", "calculate_overlap"}
        /\ (NoEdges(call.self) \/ NoEdges(call.G2)))
       => call.out.raised = "none"
  /\ (call.op \in {"is_unique", "find_matching"}
        /\ (NoEdges(call.self)
              \/ \E i \in 1..Len(call.known) : NoEdges(call.known[i])))
       => call.out.raised = "none"
  /\ (\E i \in 1..Len(topology_list) : NoEdges(topology_list[i]))
       => pc # "raised"
  /\ (call.op = "jaccard_coefficient"
        /\ NoEdges(call.self) /\ NoEdges(call.G2))
       => ReturnsOne(call.out)

\* ------------------------------------------------------------------------
\* C7 (as claimed): the edge's classification digit is the larger of the two
\* digits at the FIRST position where the two topology codes, each without
\* its final character, differ; later differences change neither edgeCode
\* nor edgeType.
\* ------------------------------------------------------------------------
C7_FirstDifferenceDecides ==
  \A k \in 1..Len(LoadedLines) :
    LET ids == LineIds(LoadedLines[k])
        D == DiffPositions(TopoOf(ids[1]), TopoOf(ids[2]))
    IN D # {} => ClassifiedAt(LoadedLines[k], Min(D))

\* ------------------------------------------------------------------------
\* C7 (amended): the edge's classification digit is the larger of the two
\* digits at the LAST position where the two topology codes, each without
\* its final character, differ; earlier differences change neither edgeCode
\* nor edgeType.  Codes 001a and 003a give digit 3 and type unconformity.
\* ------------------------------------------------------------------------
C7_LastDifferenceDecides ==
  /\ \A k \in 1..Len(LoadedLines) :
       LET ids == LineIds(LoadedLines[k])
           D == DiffPositions(TopoOf(ids[1]), TopoOf(ids[2]))
       IN D # {} => ClassifiedAt(LoadedLines[k], Max(D))
  /\ LET ex == classify(<<"0", "0", "1", "a">>, <<"0", "0", "3", "a">>)
     IN intCode(ex.eCode) = 3 /\ ex.eType = "unconformity"

\* a loaded line whose codes differ at two positions, the larger digits of
\* which differ
C7_Witness ==
  \E k \in 1..Len(LoadedLines) :
    LET ids == LineIds(LoadedLines[k])
        t1 == TopoOf(ids[1])
        t2 == TopoOf(ids[2])
        D == DiffPositions(t1, t2)
    IN /\ Cardinality(D) = 2
       /\ Max({DigitVal(t1[Min(D)]), DigitVal(t2[Min(D)])})
            # Max({DigitVal(t1[Max(D)]), DigitVal(t2[Max(D)])})
       /\ has_edge(graph, ids[1], ids[2])

\* ------------------------------------------------------------------------
\* C8 (as claimed): is_unique(candidate, known) returns false if and only if
\* some element of known has jaccard(candidate, element) == 1.0 and returns
\* true otherwise; the result is the same for every ordering of known.
\* ------------------------------------------------------------------------
C8_IsUniqueIffNoMatch ==
  call.op = "is_unique" =>
    LET c == call.self
        known == call.known
        match == \E i \in 1..Len(known) : Matches(c, known[i])
    IN /\ call.out = (IF match THEN Returned(FALSE) ELSE Returned(TRUE))
       /\ \A p \in Permutations(1..Len(known)) :
            is_unique(c, [i \in 1..Len(known) |-> known[p[i]]]) = {call.out}

\* ------------------------------------------------------------------------
\* C9 (as claimed): find_matching(candidate, known) returns the element of
\* known of lowest index i with jaccard(candidate, known[i]) == 1.0, and
\* returns None exactly when no element matches, that is exactly when
\* is_unique(candidate, known) is true.
\* ------------------------------------------------------------------------
C9_FindMatchingFirstMatch ==
  call.op = "find_matching" =>
    LET c == call.self
        known == call.known
        M == {i \in 1..Len(known) : Matches(c, known[i])}
    IN /\ M # {} => call.out = Returned(known[Min(M)])
       /\ M = {} => call.out = ReturnedNone
       /\ (call.out = ReturnedNone) <=> (is_unique(c, known) = {Returned(TRUE)})

\* ------------------------------------------------------------------------
\* C10: overlap(A, B) == overlap(B, A), and overlap(A, B) is the number of
\* A's edges, as unordered node-id pairs, that B has too.
\* ------------------------------------------------------------------------
C10_OverlapSymmetric ==
  call.op = "calculate_overlap" =>
    /\ calculate_overlap(call.G2, call.self) = {call.out}
    /\ call.out
         = Returned(Cardinality(EdgeSet(call.self) \cap EdgeSet(call.G2)))

\* an overlap of graphs that share an edge and each have one the other lacks
C10_Witness ==
  /\ call.op = "calculate_overlap"
  /\ call.out.ret[1] >= 1
  /\ EdgeSet(call.self) \ EdgeSet(call.G2) # {}
  /\ EdgeSet(call.G2) \ EdgeSet(call.self) # {}

\* ------------------------------------------------------------------------
\* C11 (as claimed): a run of calculate_unique_topologies over N topologies
\* with an output file writes exactly one number per topology, after that
\* topology is processed, equal to the length of uTopo at that moment; when
\* the run is over the written sequence has length N, never decreases, rises
\* by at most 1 per entry, and its last number is at most N and is the
\* length of the returned list.
\* ------------------------------------------------------------------------
C11_OneNumberPerTopology ==
  (output /\ pc \in {"returned", "raised"}) =>
    /\ Len(f) = Len(topology_list)
    /\ \A k \in 1..Len(f) :
         f[k] - (IF k = 1 THEN 0 ELSE f[k - 1]) \in {0, 1}
    /\ Len(f) > 0 =>
         /\ f[Len(f)] <= Len(topology_list)
         /\ call.out.raised = "none"
         /\ f[Len(f)] = Len(call.out.ret[1])

\* ------------------------------------------------------------------------
\* Vocabulary of the properties of filter_node_volumes
\* ------------------------------------------------------------------------
\* the graph that the k-th recorded call of filter_node_volumes left
GraphAfter(k) ==
  IF k = Len(call.calls) THEN graph ELSE call.calls[k + 1].before

\* the nodes of G with a volume below t
Below(G, t) == {n \in DOMAIN G.node : G.node[n].volume < t}

\* ------------------------------------------------------------------------
\* C12: filter_node_volumes(t) deletes exactly the nodes whose volume is
\* below t, keeps every node whose volume is t or more (a volume equal to t
\* is kept), and returns the number of nodes it deleted.
\* ------------------------------------------------------------------------
C12_RemovesExactlyBelow ==
  \A k \in 1..Len(call.calls) :
    LET c == call.calls[k]
        after == GraphAfter(k)
    IN /\ DOMAIN after.node = (DOMAIN c.before.node) \ Below(c.before, c.min_volume)
       /\ \A n \in DOMAIN after.node :
            /\ after.node[n] = c.before.node[n]
            /\ after.node[n].volume >= c.min_volume
       /\ c.ret = Cardinality(Below(c.before, c.min_volume))

\* a call that deleted a node and kept a node whose volume equals min_volume
C12_Witness ==
  \E k \in 1..Len(call.calls) :
    /\ call.calls[k].ret >= 1
    /\ \E n \in DOMAIN GraphAfter(k).node :
         GraphAfter(k).node[n].volume = call.calls[k].min_volume

\* ------------------------------------------------------------------------
\* C13: filter_node_volumes is idempotent: a second call with the same
\* min_volume, made right after the first, returns 0 and leaves the node set
\* and the edge set as they were.
\* ------------------------------------------------------------------------
C13_SecondCallRemovesNothing ==
  \A k \in 2..Len(call.calls) :
    call.calls[k].min_volume = call.calls[k - 1].min_volume =>
      /\ call.calls[k].ret = 0
      /\ DOMAIN GraphAfter(k).node = DOMAIN call.calls[k].before.node
      /\ EdgeSet(GraphAfter(k)) = EdgeSet(call.calls[k].before)
      /\ GraphAfter(k) = call.calls[k].before

\* a second call with the min_volume of a first call that deleted two nodes
\* and left an edge
C13_Witness ==
  /\ Len(call.calls) >= 2
  /\ call.calls[2].min_volume = call.calls[1].min_volume
  /\ call.calls[1].ret >= 2
  /\ EdgeSet(graph) # {}

\* ------------------------------------------------------------------------
\* C18: after filter_node_volumes(t) no edge has a removed endpoint (every
\* edge left joins two nodes left, each of volume t or more), and every edge
\* whose two endpoints survive is still there with its attributes edgeCode,
\* edgeType, area and weight unchanged; removing one node of a chain of
\* three nodes leaves 2 nodes.
\* ------------------------------------------------------------------------
C18_EdgesFollowNodes ==
  \A k \in 1..Len(call.calls) :
    LET c == call.calls[k]
        after == GraphAfter(k)
    IN /\ DOMAIN after.adj = DOMAIN after.node
       /\ \A x \in DOMAIN after.adj : \A y \in DOMAIN after.adj[x] :
            /\ y \in DOMAIN after.node
            /\ after.node[x].volume >= c.min_volume
            /\ after.node[y].volume >= c.min_volume
       /\ \A x \in DOMAIN after.node : \A y \in DOMAIN after.node :
            y \in DOMAIN c.before.adj[x] =>
              /\ y \in DOMAIN after.adj[x]
              /\ after.adj[x][y] = c.before.adj[x][y]
              /\ \A key \in {"edgeCode", "edgeType", "area", "weight"} :
                   after.adj[x][y][key] = c.before.adj[x][y][key]
       /\ (Cardinality(DOMAIN c.before.node) = 3 /\ c.ret = 1) =>
            Cardinality(DOMAIN after.node) = 2

\* the chain 2_35a - 2_00a - 1_52a (volumes 60, 50, 49) after a call with
\* min_volume 50: the end node of volume 49 is gone with its edge, two nodes
\* and the edge between them are left
C18_Witness ==
  /\ Len(call.calls) = 1
  /\ call.calls[1].before = loadNetwork(<<Line_CD, Line_DE>>).graph
  /\ call.calls[1].min_volume = 50
  /\ call.calls[1].ret = 1
  /\ DOMAIN graph.node = {Id_2_35a, Id_2_00a}
  /\ EdgeSet(graph) = {{Id_2_35a, Id_2_00a}}

\* ------------------------------------------------------------------------
\* C14: the type and colour of an edge are a fixed function of its
\* classification digit: 0 gives stratigraphic and black ('k'); 2, 7 or 8
\* give fault and red ('r'); 3 gives unconformity and blue ('b'); 5 gives
\* intrusive and yellow ('y'); any other digit gives unknown and green
\* ('g'). Topology codes that are identical over the compared length keep
\* edgeCode 0 and type stratigraphic.
\* ------------------------------------------------------------------------
C14_TypeAndColourByDigit ==
  \A u \in DOMAIN graph.adj : \A v \in DOMAIN graph.adj[u] :
    LET e == graph.adj[u][v]
        d == intCode(e.edgeCode)
        is(type, colour) == e.edgeType = type /\ e.colour = colour
    IN /\ d = 0 => is("stratigraphic", "k")
       /\ d \in {2, 7, 8} => is("fault", "r")
       /\ d = 3 => is("unconformity", "b")
       /\ d = 5 => is("intrusive", "y")
       /\ d \in {1, 4, 6, 9} => is("unknown", "g")
       /\ DiffPositions(TopoOf(u), TopoOf(v)) = {} =>
            e.edgeCode = PyInt0 /\ e.edgeType = "stratigraphic"

\* a loaded graph with an edge of digit 7 between codes that differ twice
C14_Witness ==
  /\ bstate = "loaded"
  /\ \E u \in DOMAIN graph.adj : \E v \in DOMAIN graph.adj[u] :
       /\ intCode(graph.adj[u][v].edgeCode) = 7
       /\ graph.adj[u][v].edgeType = "fault"
       /\ Cardinality(DiffPositions(TopoOf(u), TopoOf(v))) = 2

\* ------------------------------------------------------------------------
\* Vocabulary of the properties of the loaded graph
\* ------------------------------------------------------------------------
\* the unordered pair of ids of the i-th line read, and its count field
LinePair(i) == {LineIds(read[i])[1], LineIds(read[i])[2]}

LineCount(i) == int(split(rstrip(read[i]), "\t")[3])

\* ------------------------------------------------------------------------
\* C15: after the loader has processed a well-formed edge list, the node set
\* is exactly the set of ids that are field 0 or field 1 of some line, there
\* is at most one edge per unordered pair of ids, and when a pair is repeated
\* (in either order) the edge's area is the count of the last line for that
\* pair: it is overwritten, not summed.
\* ------------------------------------------------------------------------
C15_NodesEdgesAndLastArea ==
  bstate \in {"loading", "loaded"} =>
    /\ DOMAIN graph.node = UNION {LinePair(i) : i \in 1..Len(read)}
    /\ DOMAIN graph.adj = DOMAIN graph.node
    /\ EdgeSet(graph) = {LinePair(i) : i \in 1..Len(read)}
    /\ number_of_edges(graph) = Cardinality({LinePair(i) : i \in 1..Len(read)})
    /\ \A u \in DOMAIN graph.adj : \A v \in DOMAIN graph.adj[u] :
         u \in DOMAIN graph.adj[v] /\ graph.adj[v][u] = graph.adj[u][v]
    /\ \A i \in 1..Len(read) :
         LET last == Max({j \in 1..Len(read) : LinePair(j) = LinePair(i)})
             ids == LineIds(read[i])
         IN graph.adj[ids[1]][ids[2]].area = LineCount(last)

\* a file whose two lines name one pair of different ids in opposite orders
\* with different counts
C15_Witness ==
  /\ bstate = "loaded"
  /\ Len(read) = 2
  /\ LineIds(read[1])[1] # LineIds(read[1])[2]
  /\ LineIds(read[2]) = <<LineIds(read[1])[2], LineIds(read[1])[1]>>
  /\ LineCount(1) # LineCount(2)
  /\ Cardinality(DOMAIN graph.node) = 2
  /\ number_of_edges(graph) = 1

\* the lithology code of an id, and whether the two mappings resolve the id
LithoOf(id) == split(id, "_")[1]

Resolvable(id) ==
  /\ int(LithoOf(id)) \in DOMAIN lithology_properties
  /\ NodeKey(LithoOf(id), TopoOf(id)) \in DOMAIN node_properties

\* ------------------------------------------------------------------------
\* C16: if any edge line names a node whose lithology code has no entry in
\* lithology_properties, or whose key "<lithologyCode>_<topologyCode>" has
\* no entry in node_properties, the build ends in a KeyError and no graph is
\* produced; in a graph that was built, every node has its name, colour,
\* centroid and volume from the two mappings.
\* ------------------------------------------------------------------------
C16_UnresolvedNodeIsFatal ==
  /\ (\E i \in 1..Len(read) : \E k \in {1, 2} :
        ~Resolvable(LineIds(read[i])[k]))
       => bstate = "raised"
  /\ bstate = "raised" =>
       \E k \in {1, 2} : ~Resolvable(LineIds(read[Len(read)])[k])
  /\ bstate = "loaded" =>
       \A n \in DOMAIN graph.node :
         /\ DOMAIN graph.node[n]
              = {"lithology", "name", "colour", "centroid", "volume"}
         /\ graph.node[n].name = lithology_properties[int(LithoOf(n))].name
         /\ graph.node[n].colour = lithology_properties[int(LithoOf(n))].colour
         /\ graph.node[n].centroid
              = node_properties[NodeKey(LithoOf(n), TopoOf(n))].centroid
         /\ graph.node[n].volume
              = node_properties[NodeKey(LithoOf(n), TopoOf(n))].volume

\* the load of a file whose second line names, in field 1, a node whose
\* lithology has an entry and whose key has none has ended in an error
C16_Witness ==
  /\ bstate = "raised"
  /\ Len(read) = 2
  /\ Resolvable(LineIds(read[2])[1])
  /\ int(LithoOf(LineIds(read[2])[2])) \in DOMAIN lithology_properties
  /\ ~Resolvable(LineIds(read[2])[2])

\* ------------------------------------------------------------------------
\* Vocabulary of the properties of calculate_unique_topologies
\* ------------------------------------------------------------------------
\* the list that the rule "keep an input exactly when is_unique holds
\* against the list kept so far" accumulates from the first k inputs
RECURSIVE KeptOf(_, _)
KeptOf(list, k) ==
  IF k = 0 THEN <<>>
  ELSE The({IF is_unique(list[k], kept) = {Returned(TRUE)}
            THEN Append(kept, list[k]) ELSE kept :
            kept \in {KeptOf(list, k - 1)}})

\* ------------------------------------------------------------------------
\* C17 (as claimed): calculate_unique_topologies processes its inputs
\* strictly in the given order and its result is an order-preserving
\* subsequence of the input: the first input is always kept, an input is
\* kept exactly when is_unique holds against the list accumulated from the
\* inputs before it, and every input that is not kept has jaccard == 1.0
\* with some element kept earlier; no element is ever removed from the
\* accumulated list (after k inputs it is the list the rule gives for them,
\* which the list for k + 1 inputs extends).
\* ------------------------------------------------------------------------
C17_KeptExactlyWhenUnique ==
  /\ pc = "loop" =>
       /\ uTopo = KeptOf(topology_list, it - 1)
       /\ it > 1 => uTopo[1] = topology_list[1]
  /\ pc \in {"returned", "raised"} =>
       /\ call.out = Returned(KeptOf(topology_list, Len(topology_list)))
       /\ \A k \in 1..Len(topology_list) :
            LET kept == KeptOf(topology_list, k - 1)
            IN \/ is_unique(topology_list[k], kept) = {Returned(TRUE)}
               \/ \E j \in 1..Len(kept) : Matches(topology_list[k], kept[j])

\* ------------------------------------------------------------------------
\* C19: jaccard_coefficient, calculate_overlap, is_unique, find_matching and
\* calculate_unique_topologies leave every graph they are given unchanged:
\* the node set, the edge set and the attributes of the candidate and of
\* every graph of the known or input list are after the call what they were
\* before it, and the input list is neither reordered nor shortened.
\* ------------------------------------------------------------------------
C19_GraphsLeftUnchanged ==
  [][/\ (pc = "idle" /\ pc' = "called") =>
          call'.after
            = <<call'.self,
                IF call'.op \in {"jaccard_coefficient", "calculate_overlap"}
                THEN call'.G2 ELSE call'.known>>
     /\ pc = "loop" =>
          /\ topology_list' = topology_list
          /\ \A i \in 1..Len(uTopo') :
               \E k \in 1..Len(topology_list) : uTopo'[i] = topology_list[k]
          /\ SubSeq(uTopo', 1, Len(uTopo)) = uTopo
    ]_vars

\* is_unique has returned True for a candidate with an edge against a list
\* of two graphs, one of which has none of the candidate's nodes
C19_Witness ==
  /\ call.op = "is_unique"
  /\ call.out = Returned(TRUE)
  /\ EdgeSet(call.self) # {}
  /\ Len(call.known) = 2
  /\ \E i \in 1..2 :
       (DOMAIN call.known[i].node) \cap (DOMAIN call.self.node) = {}

====
